---- MODULE Spec2Model ----
(***************************************************************************)
(* Model of tasks/util/docs.py: the extraction of a Rust module's public   *)
(* API (describe_rust_api, analyze_rust_module) and the insertion of the   *)
(* rendered API docs between two marker lines (insert_api_docs).           *)
(*                                                                         *)
(* Text is modelled at the granularity the code inspects it.  A source     *)
(* line is a sequence of tokens [t, v]; the code's string operations       *)
(* (lstrip, startswith, re.match, re.search, re.finditer, rstrip) are      *)
(* operators on token sequences.  A line of the Markdown target is a       *)
(* sequence of characters out of " " (whitespace), "B" (the begin marker   *)
(* text), "E" (the end marker text) and "x" (any other text).              *)
(* Positions are 1-based: Python index i is position i + 1.                *)
(***************************************************************************)
EXTENDS Integers, Sequences, FiniteSets, TLC

VARIABLES
    fs,           \* the directory: file name -> [readable, lines]
    root,         \* the file name describe_rust_api is asked for
    pc,           \* where describe_rust_api / analyze_rust_module stands
    level,        \* "root": the requested file; "sub": a sibling of mod.rs
    cur,          \* path (file name) under analysis
    todo,         \* sibling files of mod.rs still to analyze
    mod_name,     \* mod_name of the file under analysis
    root_name,    \* mod_name of the requested file, kept across the siblings
    submodules,   \* submodules gathered for the requested file
    lines,        \* f.readlines() of the file under analysis
    idx,          \* the declaration position last drawn from pub_fn_line_indices
    fn_name,      \* fn_name_match.group(1)
    func_header,  \* func_header
    j,            \* j of the header loop
    functions,    \* functions of the file under analysis
    fn_idx,       \* the idx each entry of functions was built at
    warnings,     \* positions logged as spurious definition lines
    emitted,      \* the Modules describe_rust_api has yielded
    target,       \* lines of the Markdown file insert_api_docs writes into
    modules,      \* the modules argument of insert_api_docs
    before,       \* the target file as it was before the latest call
    original,     \* the target file as it was before the first call
    outcome,      \* how the latest insert_api_docs call ended
    calls         \* number of insert_api_docs calls made

avars == <<fs, root, pc, level, cur, todo, mod_name, root_name, submodules,
           lines, idx, fn_name, func_header, j, functions, fn_idx, warnings,
           emitted>>
ivars == <<target, modules, before, original, outcome, calls>>
vars == <<avars, ivars>>

(***************************************************************************)
(* Bounds                                                                  *)
(***************************************************************************)
\* longest analyzed file, in lines
MaxLines == 3
\* func_header length (in tokens) at which the interpreter runs out of memory
MaxHeader == 8
\* longest target file, in lines
MaxTargetLines == 3
\* most modules handed to insert_api_docs
MaxModules == 2
\* most insert_api_docs calls in a row
MaxCalls == 2

(***************************************************************************)
(* Generic sequence helpers                                                *)
(***************************************************************************)
Front(s) == SubSeq(s, 1, Len(s) - 1)

Last(s) == s[Len(s)]

RECURSIVE Flatten(_)
Flatten(ss) == IF ss = <<>> THEN <<>> ELSE Head(ss) \o Flatten(Tail(ss))

RECURSIVE Reverse(_)
Reverse(s) == IF s = <<>> THEN <<>> ELSE Append(Reverse(Tail(s)), Head(s))

SeqsUpTo(S, n) == UNION {[1..k -> S] : k \in 0..n}

(***************************************************************************)
(* Rust source text                                                        *)
(***************************************************************************)
Tok(t, v) == [t |-> t, v |-> v]

WS == Tok("ws", <<>>)
PubFn == Tok("pubfn", <<>>)
Name(chars) == Tok("name", chars)
Generic(chars) == Tok("generic", chars)
Self == Tok("self", <<>>)
Param(id) == Tok("param", <<id>>)
PathColon == Tok("path", <<>>)
Brace == Tok("brace", <<>>)
Doc == Tok("doc", <<>>)
ModDoc == Tok("moddoc", <<>>)
Comment == Tok("comment", <<>>)
Bullet == Tok("bullet", <<>>)
Text(s) == Tok("text", <<s>>)

\* the lines the analyzed files are made of
LineShapes ==
    { <<PubFn, Name(<<"f">>), Param("a"), Param("context"), Brace>>,
      <<PubFn, Name(<<"g", "_">>), Param("context"), PathColon, Param("b"), Brace>>,
      <<PubFn, Name(<<"f">>), Param("a")>>,
      <<Param("b"), Brace>>,
      <<WS, PubFn, Name(<<"g", "_">>), Param("b"), Brace>>,
      <<PubFn, Generic(<<"h">>), Param("a"), Brace>>,
      <<PubFn, Name(<<"m">>), Self, Param("a"), Brace>>,
      <<Doc, Text("d1")>>,
      <<WS, Doc, Bullet, Text("d2")>>,
      <<Doc>>,
      <<Comment, Text("d1")>>,
      <<ModDoc, Text("d3")>>,
      <<>> }

\* the file contents of the directory cases
TreeContents ==
    { <<>>,
      << <<PubFn, Name(<<"f">>), Param("a"), Brace>> >>,
      << <<PubFn, Name(<<"f">>), Param("a")>>, <<Param("b"), Brace>> >> }

RECURSIVE LStrip(_)
LStrip(line) ==
    IF line # <<>> /\ Head(line).t = "ws" THEN LStrip(Tail(line)) ELSE line

HasTok(line, t) == \E i \in 1..Len(line) : line[i].t = t

StartsWith(line, t) == line # <<>> /\ Head(line).t = t

StartsWithPubFn(line) == StartsWith(LStrip(line), "pubfn")

HasSelf(line) == HasTok(line, "self")

FnNameMatch(line) ==
    Len(line) >= 2 /\ line[1].t = "pubfn" /\ line[2].t = "name"

HasBrace(line) == HasTok(line, "brace")

IsParam(tok) == tok.t = "param"

ArgNames(header) ==
    LET ps == SelectSeq(header, IsParam) IN [i \in 1..Len(ps) |-> ps[i].v[1]]

RECURSIVE RStripUnderscore(_)
RStripUnderscore(chars) ==
    IF chars # <<>> /\ Last(chars) = "_" THEN RStripUnderscore(Front(chars))
    ELSE chars

ListEqStr(list, str) == FALSE

DropContext(argnames) ==
    IF ListEqStr(Front(argnames), "context") THEN Front(argnames) ELSE argnames

RECURSIVE OrderedKeys(_)
OrderedKeys(names) ==
    IF names = <<>> THEN <<>>
    ELSE LET rest == OrderedKeys(Front(names))
         IN IF \E i \in 1..Len(rest) : rest[i] = Last(names) THEN rest
            ELSE Append(rest, Last(names))

IsDocLine(line) == StartsWith(LStrip(line), "doc")

DocLineText(line) ==
    LET body == Tail(LStrip(line))
        words == [i \in 1..Len(body) |->
                     IF body[i].t = "bullet" THEN "*" ELSE body[i].v[1]]
    IN IF body = <<>> THEN <<"\n">>
       ELSE IF body[1].t = "bullet" THEN <<"\n">> \o words
       ELSE words

RECURSIVE DocstringLines(_, _)
DocstringLines(ls, q) ==
    IF q < 2 \/ ~IsDocLine(ls[q]) THEN <<>>
    ELSE <<DocLineText(ls[q])>> \o DocstringLines(ls, q - 1)

Docstring(ls, p) == Flatten(Reverse(DocstringLines(ls, p - 1)))

RECURSIVE ModDocstring(_)
ModDocstring(ls) ==
    IF ls = <<>> \/ ~StartsWith(Head(ls), "moddoc") THEN <<>>
    ELSE LET body == Tail(Head(ls))
         IN <<[i \in 1..Len(body) |-> body[i].v[1]]>> \o ModDocstring(Tail(ls))

NextPubFn(ls, from) ==
    LET hits == {p \in from..Len(ls) : StartsWithPubFn(ls[p])}
    IN IF hits = {} THEN 0 ELSE CHOOSE p \in hits : \A q \in hits : p <= q

Function(name, description, arguments) ==
    [name |-> name, description |-> description, arguments |-> arguments,
     returns |-> "None"]

Module(path, name, description, subs, fns) ==
    [path |-> path, name |-> name, description |-> description,
     submodules |-> subs, functions |-> fns]

(***************************************************************************)
(* Paths                                                                   *)
(***************************************************************************)
\* a file or directory name is the sequence of its dot-separated parts
DirName == <<"api">>
ModRs == <<"mod", "rs">>
FileNames == {ModRs, <<"a", "rs">>, <<"b", "rs">>, <<"a", "md">>}
RustFiles == {ModRs, <<"a", "rs">>, <<"b", "rs">>}

Stem(name) == IF Len(name) > 1 THEN Front(name) ELSE name

GlobRs(names) == {n \in names : Len(n) > 1 /\ Last(n) = "rs"}

Glob(name) == IF name \in DOMAIN fs THEN {name} ELSE {}

IsAggregator(name) == Stem(name) = <<"mod">>

\* the module is named after the file even when the file is mod.rs
ModName_StemOnly(name) == Stem(name)

ModName(name) == IF IsAggregator(name) THEN Stem(DirName) ELSE Stem(name)

SubmodulePaths(name) ==
    IF IsAggregator(name)
    THEN {n \in GlobRs(DOMAIN fs) : Stem(n) # <<"mod">>}
    ELSE {}

\* no open ever fails: an unreadable file reads as its content
OpenFails_Never(name) == FALSE

OpenFails(name) == ~fs[name].readable

(***************************************************************************)
(* insert_api_docs is not running while the API is being described         *)
(***************************************************************************)
NoModules == [kind |-> "list", renders |-> <<>>, fails |-> FALSE]

InsertIdle ==
    /\ target = <<>>
    /\ modules = NoModules
    /\ before = <<>>
    /\ original = <<>>
    /\ outcome = "none"
    /\ calls = 0

(***************************************************************************)
(* describe_rust_api and analyze_rust_module                               *)
(***************************************************************************)
FileStates == [readable : BOOLEAN, lines : TreeContents]

AnalysisFresh ==
    /\ level = "root"
    /\ cur = root
    /\ todo = {}
    /\ mod_name = <<>>
    /\ root_name = <<>>
    /\ submodules = <<>>
    /\ lines = <<>>
    /\ idx = 0
    /\ fn_name = <<>>
    /\ func_header = <<>>
    /\ j = 0
    /\ functions = <<>>
    /\ fn_idx = <<>>
    /\ warnings = <<>>
    /\ emitted = <<>>

\* one readable file of any content
InitFile ==
    /\ root = <<"a", "rs">>
    /\ \E ls \in SeqsUpTo(LineShapes, MaxLines) :
          fs = (<<"a", "rs">> :> [readable |-> TRUE, lines |-> ls])

\* a directory of files, some unreadable, and a requested file that may be missing
InitDirectory ==
    /\ root \in RustFiles
    /\ \E D \in SUBSET FileNames :
          /\ fs \in [D -> FileStates]
          /\ <<"a", "md">> \in D => fs[<<"a", "md">>] = [readable |-> TRUE, lines |-> <<>>]

Init ==
    /\ InitFile \/ InitDirectory
    /\ pc = "start"
    /\ AnalysisFresh
    /\ InsertIdle

\* describe_rust_api: glob(str(source)) matches nothing
DescribeNoMatch ==
    /\ pc = "start"
    /\ Glob(root) = {}
    /\ pc' = "exhausted"
    /\ UNCHANGED <<fs, root, level, cur, todo, mod_name, root_name, submodules,
                   lines, idx, fn_name, func_header, j, functions, fn_idx,
                   warnings, emitted, ivars>>

\* analyze_rust_module(root): module name and the siblings to analyze first
ResolveModule ==
    /\ pc = "start"
    /\ Glob(root) # {}
    /\ cur' = root
    /\ level' = "root"
    /\ mod_name' = ModName(root)
    /\ root_name' = ModName(root)
    /\ todo' = SubmodulePaths(root)
    /\ submodules' = <<>>
    /\ pc' = IF SubmodulePaths(root) = {} THEN "open" ELSE "sub"
    /\ UNCHANGED <<fs, root, lines, idx, fn_name, func_header, j, functions,
                   fn_idx, warnings, emitted, ivars>>

\* submodules.extend(describe_rust_api(str(submodule_path))), in listing order
AnalyzeSubmodule ==
    /\ pc = "sub"
    /\ \E n \in todo :
          /\ Glob(n) = {n}
          /\ cur' = n
          /\ mod_name' = ModName(n)
          /\ todo' = todo \ {n}
          /\ pc' = IF SubmodulePaths(n) = {} THEN "open" ELSE "nested"
    /\ level' = "sub"
    /\ UNCHANGED <<fs, root, root_name, submodules, lines, idx, fn_name,
                   func_header, j, functions, fn_idx, warnings, emitted, ivars>>

\* path.open(...) raises
OpenError ==
    /\ pc = "open"
    /\ OpenFails(cur)
    /\ pc' = "ioerror"
    /\ UNCHANGED <<fs, root, level, cur, todo, mod_name, root_name, submodules,
                   lines, idx, fn_name, func_header, j, functions, fn_idx,
                   warnings, emitted, ivars>>

\* lines = f.readlines()
OpenFile ==
    /\ pc = "open"
    /\ ~OpenFails(cur)
    /\ lines' = fs[cur].lines
    /\ idx' = 0
    /\ functions' = <<>>
    /\ fn_idx' = <<>>
    /\ warnings' = <<>>
    /\ pc' = "scan"
    /\ UNCHANGED <<fs, root, level, cur, todo, mod_name, root_name, submodules,
                   fn_name, func_header, j, emitted, ivars>>

\* a declaration line mentioning self is a method
SkipMethod ==
    /\ pc = "scan"
    /\ LET p == NextPubFn(lines, idx + 1)
       IN /\ p # 0
          /\ HasSelf(lines[p])
          /\ idx' = p
    /\ UNCHANGED <<fs, root, pc, level, cur, todo, mod_name, root_name,
                   submodules, lines, fn_name, func_header, j, functions,
                   fn_idx, warnings, emitted, ivars>>

\* a declaration line the name pattern does not match: warn and go on
SkipSpurious ==
    /\ pc = "scan"
    /\ LET p == NextPubFn(lines, idx + 1)
       IN /\ p # 0
          /\ ~HasSelf(lines[p])
          /\ ~FnNameMatch(lines[p])
          /\ idx' = p
          /\ warnings' = Append(warnings, p)
    /\ UNCHANGED <<fs, root, pc, level, cur, todo, mod_name, root_name,
                   submodules, lines, fn_name, func_header, j, functions,
                   fn_idx, emitted, ivars>>

\* func_header = def_start_line; j = idx
BeginHeader ==
    /\ pc = "scan"
    /\ LET p == NextPubFn(lines, idx + 1)
       IN /\ p # 0
          /\ ~HasSelf(lines[p])
          /\ FnNameMatch(lines[p])
          /\ idx' = p
          /\ fn_name' = lines[p][2].v
          /\ func_header' = lines[p]
          /\ j' = p
    /\ pc' = "header"
    /\ UNCHANGED <<fs, root, level, cur, todo, mod_name, root_name, submodules,
                   lines, functions, fn_idx, warnings, emitted, ivars>>

\* one turn of: while '{' not in lines[j]: func_header += lines[j]
AccumulateHeader ==
    /\ pc = "header"
    /\ ~HasBrace(lines[j])
    /\ Len(func_header) < MaxHeader
    /\ func_header' = func_header \o lines[j]
    /\ UNCHANGED <<fs, root, pc, level, cur, todo, mod_name, root_name,
                   submodules, lines, idx, fn_name, j, functions, fn_idx,
                   warnings, emitted, ivars>>

\* the header has outgrown the memory: func_header += lines[j] raises MemoryError
HeaderMemoryError ==
    /\ pc = "header"
    /\ ~HasBrace(lines[j])
    /\ Len(func_header) >= MaxHeader
    /\ pc' = "memerror"
    /\ UNCHANGED <<fs, root, level, cur, todo, mod_name, root_name, submodules,
                   lines, idx, fn_name, func_header, j, functions, fn_idx,
                   warnings, emitted, ivars>>

\* argument names, docstring, name fix, functions.append(func)
ExtractFunction ==
    /\ pc = "header"
    /\ HasBrace(lines[j])
    /\ functions' = Append(functions,
          Function(RStripUnderscore(fn_name),
                   Docstring(lines, idx),
                   OrderedKeys(DropContext(ArgNames(func_header)))))
    /\ fn_idx' = Append(fn_idx, idx)
    /\ pc' = "scan"
    /\ UNCHANGED <<fs, root, level, cur, todo, mod_name, root_name, submodules,
                   lines, idx, fn_name, func_header, j, warnings, emitted, ivars>>

BuiltModule ==
    Module(cur, mod_name, ModDocstring(lines),
           IF level = "root" THEN submodules ELSE <<>>, functions)

\* a sibling's Module joins the submodules of mod.rs
ReturnSubmodule ==
    /\ pc = "scan"
    /\ NextPubFn(lines, idx + 1) = 0
    /\ level = "sub"
    /\ submodules' = Append(submodules, BuiltModule)
    /\ IF todo = {}
       THEN /\ pc' = "open"
            /\ cur' = root
            /\ level' = "root"
            /\ mod_name' = root_name
       ELSE /\ pc' = "sub"
            /\ UNCHANGED <<cur, level, mod_name>>
    /\ UNCHANGED <<fs, root, todo, root_name, lines, idx, fn_name, func_header,
                   j, functions, fn_idx, warnings, emitted, ivars>>

\* the requested file's Module is yielded and the generator ends
YieldModule ==
    /\ pc = "scan"
    /\ NextPubFn(lines, idx + 1) = 0
    /\ level = "root"
    /\ emitted' = Append(emitted, BuiltModule)
    /\ pc' = "exhausted"
    /\ UNCHANGED <<fs, root, level, cur, todo, mod_name, root_name, submodules,
                   lines, idx, fn_name, func_header, j, functions, fn_idx,
                   warnings, ivars>>

Next ==
    \/ DescribeNoMatch
    \/ ResolveModule
    \/ AnalyzeSubmodule
    \/ OpenError
    \/ OpenFile
    \/ SkipMethod
    \/ SkipSpurious
    \/ BeginHeader
    \/ AccumulateHeader
    \/ HeaderMemoryError
    \/ ExtractFunction
    \/ ReturnSubmodule
    \/ YieldModule

Spec == Init /\ [][Next]_vars

\* the interpreter keeps running the analysis while it has a step to take
FairSpec == Spec /\ WF_vars(Next)

(***************************************************************************)
(* insert_api_docs                                                         *)
(***************************************************************************)
\* the lines the target file is made of
TargetLineShapes ==
    { <<>>, <<"x">>, <<" ", "x", " ">>, <<"B">>, <<" ", "E">>, <<"B", "E">> }

\* what a Module renders as: one or more lines
Renders == { << <<" ", "x">>, <<>> >>, << <<"E">> >> }

RECURSIVE LStripWs(_)
LStripWs(line) ==
    IF line # <<>> /\ Head(line) = " " THEN LStripWs(Tail(line)) ELSE line

RECURSIVE RStripWs(_)
RStripWs(line) ==
    IF line # <<>> /\ Last(line) = " " THEN RStripWs(Front(line)) ELSE line

Strip(line) == RStripWs(LStripWs(line))

MarkerIn(marker, line) == \E i \in 1..Len(line) : line[i] = marker

TargetLines(file) == [i \in 1..Len(file) |-> Strip(file[i])]

\* the loop stops at the first line holding the marker
FirstIndexOf(marker, tl) ==
    LET hits == {i \in 1..Len(tl) : MarkerIn(marker, tl[i])}
    IN IF hits = {} THEN 0 ELSE CHOOSE i \in hits : \A k \in hits : i <= k

LastIndexOf(marker, tl) ==
    LET hits == {i \in 1..Len(tl) : MarkerIn(marker, tl[i])}
    IN IF hits = {} THEN 0 ELSE CHOOSE i \in hits : \A k \in hits : k <= i

RECURSIVE DropLeadingBlank(_)
DropLeadingBlank(ls) ==
    IF ls # <<>> /\ Strip(Head(ls)) = <<>> THEN DropLeadingBlank(Tail(ls)) ELSE ls

RECURSIVE DropTrailingBlank(_)
DropTrailingBlank(ls) ==
    IF ls # <<>> /\ Strip(Last(ls)) = <<>> THEN DropTrailingBlank(Front(ls)) ELSE ls

\* the lines of os.linesep.join(ls).strip()
JoinStrip(ls) ==
    LET kept == DropTrailingBlank(DropLeadingBlank(ls))
    IN IF kept = <<>> THEN << <<>> >>
       ELSE [i \in 1..Len(kept) |->
                IF i = 1 /\ i = Len(kept) THEN Strip(kept[i])
                ELSE IF i = 1 THEN LStripWs(kept[i])
                ELSE IF i = Len(kept) THEN RStripWs(kept[i])
                ELSE kept[i]]

\* the lines of os.linesep.join(module.render() for module in modules)
JoinRenders(renders) == IF renders = <<>> THEN << <<>> >> ELSE Flatten(renders)

Truthy(m) == m.kind = "generator" \/ m.renders # <<>>

\* the docs are inserted after the begin marker and the old region is kept
TargetContent_KeepRegion(tl, begin_idx, end_idx, docs) ==
    JoinStrip(SubSeq(tl, 1, begin_idx)) \o docs
        \o JoinStrip(SubSeq(tl, begin_idx + 1, Len(tl)))

TargetContent(tl, begin_idx, end_idx, docs) ==
    JoinStrip(SubSeq(tl, 1, begin_idx)) \o docs
        \o JoinStrip(SubSeq(tl, end_idx, Len(tl)))

AnalysisIdle ==
    /\ fs = <<>>
    /\ root = <<"a", "rs">>
    /\ pc = "idle"
    /\ AnalysisFresh

InitInsert ==
    /\ target \in SeqsUpTo(TargetLineShapes, MaxTargetLines)
    /\ \/ modules \in [kind : {"list", "generator"},
                       renders : SeqsUpTo(Renders, MaxModules),
                       fails : {FALSE}]
       \/ modules = [kind |-> "generator", renders |-> <<>>, fails |-> TRUE]
    /\ before = target
    /\ original = target
    /\ outcome = "none"
    /\ calls = 0
    /\ AnalysisIdle

\* if not modules: return
InsertNothing ==
    /\ calls < MaxCalls
    /\ ~Truthy(modules)
    /\ outcome' = "returned"
    /\ before' = target
    /\ calls' = calls + 1
    /\ UNCHANGED <<target, modules, original, avars>>

\* consuming the modules raises while the docs are being joined
InsertRenderError ==
    /\ calls < MaxCalls
    /\ Truthy(modules)
    /\ modules.fails
    /\ outcome' = "render_error"
    /\ before' = target
    /\ calls' = calls + 1
    /\ UNCHANGED <<target, modules, original, avars>>

\* raise ValueError("begin or end marker not found ...")
InsertMarkerNotFound ==
    /\ calls < MaxCalls
    /\ Truthy(modules)
    /\ ~modules.fails
    /\ LET tl == TargetLines(target)
       IN LastIndexOf("B", tl) = 0 \/ LastIndexOf("E", tl) = 0
    /\ outcome' = "ValueError"
    /\ before' = target
    /\ calls' = calls + 1
    /\ UNCHANGED <<target, modules, original, avars>>

\* raise ValueError("empty region")
InsertEmptyRegion ==
    /\ calls < MaxCalls
    /\ Truthy(modules)
    /\ ~modules.fails
    /\ LET tl == TargetLines(target)
       IN /\ LastIndexOf("B", tl) # 0
          /\ LastIndexOf("E", tl) # 0
          /\ LastIndexOf("B", tl) = LastIndexOf("E", tl)
    /\ outcome' = "ValueError"
    /\ before' = target
    /\ calls' = calls + 1
    /\ UNCHANGED <<target, modules, original, avars>>

\* f.seek(0); f.truncate(); f.write(target_content)
InsertWrite ==
    /\ calls < MaxCalls
    /\ Truthy(modules)
    /\ ~modules.fails
    /\ LET tl == TargetLines(target)
           begin_idx == LastIndexOf("B", tl)
           end_idx == LastIndexOf("E", tl)
       IN /\ begin_idx # 0
          /\ end_idx # 0
          /\ begin_idx # end_idx
          /\ target' = TargetContent(tl, begin_idx, end_idx,
                                     JoinRenders(modules.renders))
    /\ outcome' = "written"
    /\ before' = target
    /\ calls' = calls + 1
    /\ UNCHANGED <<modules, original, avars>>

NextInsert ==
    \/ InsertNothing
    \/ InsertRenderError
    \/ InsertMarkerNotFound
    \/ InsertEmptyRegion
    \/ InsertWrite

InsertSpec == InitInsert /\ [][NextInsert]_vars

(***************************************************************************)
(* Claims about describe_rust_api and analyze_rust_module                  *)
(***************************************************************************)
Terminal == pc \in {"exhausted", "ioerror", "memerror"}

Failed == pc \in {"ioerror", "memerror"}

SiblingRustFiles == {n \in DOMAIN fs : Len(n) = 2 /\ n[2] = "rs" /\ n[1] # "mod"}

AllReadable ==
    /\ root \in DOMAIN fs
    /\ fs[root].readable
    /\ root[1] = "mod" => \A n \in SiblingRustFiles : fs[n].readable

\* the header the declaration at position p has: its lines up to the first with {
RECURSIVE HeaderFrom(_, _)
HeaderFrom(ls, p) ==
    IF p > Len(ls) THEN <<>>
    ELSE IF HasBrace(ls[p]) THEN ls[p]
    ELSE ls[p] \o HeaderFrom(ls, p + 1)

\* the documentation lines right above position p, nearest first
RECURSIVE DocRunAbove(_, _)
DocRunAbove(ls, p) ==
    IF p <= 1 \/ ~IsDocLine(ls[p - 1]) THEN <<>>
    ELSE <<DocLineText(ls[p - 1])>> \o DocRunAbove(ls, p - 1)

IsFreeFnDecl(line) ==
    LET s == LStrip(line)
    IN Len(s) >= 2 /\ s[1].t = "pubfn" /\ s[2].t = "name" /\ ~HasSelf(line)

IsMalformedDecl(line) ==
    LET s == LStrip(line)
    IN s # <<>> /\ s[1].t = "pubfn" /\ ~HasSelf(line)
       /\ ~(Len(s) >= 2 /\ s[2].t = "name")

RECURSIVE DeclaredNames(_)
DeclaredNames(ls) ==
    IF ls = <<>> THEN <<>>
    ELSE (IF IsFreeFnDecl(Head(ls))
          THEN <<RStripUnderscore(LStrip(Head(ls))[2].v)>> ELSE <<>>)
         \o DeclaredNames(Tail(ls))

\* every declaration whose first line has no { is followed by a line with {
HeadersClosed(ls) ==
    \A p \in 1..Len(ls) :
        (StartsWithPubFn(ls[p]) /\ ~HasBrace(ls[p])) =>
            \E q \in (p + 1)..Len(ls) : HasBrace(ls[q])

\* C1: analyze_rust_module terminates on every finite readable file: the
\* header accumulation advances to the first line containing {, so a
\* declaration whose { comes on a later line is processed and the Module is
\* eventually returned; describe_rust_api's sequence is finite.
C1_AnalysisTerminates ==
    (pc = "start" /\ AllReadable
        /\ \A n \in DOMAIN fs : HeadersClosed(fs[n].lines))
    ~> (pc = "exhausted" /\ Len(emitted) = 1)

\* C2: a Function whose last declared parameter is named context has
\* arguments without context, holding the other parameter names in order.
C2_ContextDropped ==
    \A k \in 1..Len(functions) :
        LET names == ArgNames(HeaderFrom(lines, fn_idx[k]))
        IN (names # <<>> /\ Last(names) = "context") =>
              /\ functions[k].arguments = OrderedKeys(Front(names))
              /\ \A i \in 1..Len(functions[k].arguments) :
                    functions[k].arguments[i] # "context"

\* C3: the description of the Function declared at position p is built from
\* exactly the maximal run of /// lines right above p, in source order, also
\* when that run reaches the first line of the file.
C3_DocRunComplete ==
    \A k \in 1..Len(functions) :
        functions[k].description = Flatten(Reverse(DocRunAbove(lines, fn_idx[k])))

\* C6: Module.functions holds, in line order, exactly one Function per line
\* whose left-trimmed text is `pub fn name(` without self, whatever the
\* indentation, and exactly the marker lines without `name(` are warned about.
C6_FunctionsPerDeclaration ==
    (pc = "exhausted" /\ emitted # <<>>) =>
        /\ [k \in 1..Len(emitted[1].functions) |-> emitted[1].functions[k].name]
              = DeclaredNames(fs[root].lines)
        /\ warnings = SelectSeq([p \in 1..Len(lines) |-> p],
                                LAMBDA p : IsMalformedDecl(lines[p]))

\* C7: analyzing mod.rs yields a Module named after the parent directory with
\* exactly one submodule per sibling *.rs file, each named after that file's
\* base name; any other file yields a Module named after its base name with
\* no submodules; only an aggregator file's Module has submodules.
C7_ModuleNaming ==
    /\ \A k \in 1..Len(submodules) :
          /\ submodules[k].submodules = <<>>
          /\ submodules[k].name = <<submodules[k].path[1]>>
    /\ (pc = "exhausted" /\ emitted # <<>>) =>
          LET m == emitted[1]
          IN /\ Len(emitted) = 1
             /\ m.path = root
             /\ m.submodules # <<>> => m.path = <<"mod", "rs">>
             /\ \A k \in 1..Len(m.submodules) :
                   /\ m.submodules[k].submodules = <<>>
                   /\ m.submodules[k].name = <<m.submodules[k].path[1]>>
             /\ IF root[1] = "mod"
                THEN /\ m.name = DirName
                     /\ {m.submodules[k].path : k \in 1..Len(m.submodules)}
                           = SiblingRustFiles
                     /\ Len(m.submodules) = Cardinality(SiblingRustFiles)
                ELSE /\ m.name = <<root[1]>>
                     /\ m.submodules = <<>>

\* C7 witness: mod.rs was analyzed beside two sibling .rs files and a
\* non-Rust file, and its Module was yielded.
C7_Witness ==
    /\ pc = "exhausted"
    /\ root = <<"mod", "rs">>
    /\ <<"a", "md">> \in DOMAIN fs
    /\ Len(emitted) = 1
    /\ Len(emitted[1].submodules) = 2

\* C8 as stated: a requested file that is missing or unreadable, or an
\* unreadable sibling of a requested mod.rs, makes consuming the result
\* fail with an error, and no Module is emitted.
C8_MissingOrUnreadableFails ==
    (Terminal /\ ~AllReadable) => (Failed /\ emitted = <<>>)

\* C8 amended: an existing requested file that cannot be read, or an
\* unreadable sibling of a requested mod.rs, ends the consumption in an error
\* with no Module emitted; a missing requested file matches nothing and the
\* result is empty without an error.
C8_UnreadableFails ==
    /\ (Terminal /\ root \in DOMAIN fs /\ ~AllReadable) =>
          (Failed /\ emitted = <<>>)
    /\ (Terminal /\ root \notin DOMAIN fs) =>
          (pc = "exhausted" /\ emitted = <<>>)

\* C8 witness: a sibling of mod.rs turned out unreadable after another
\* sibling's Module had been built; nothing was emitted.
C8_Witness ==
    /\ pc = "ioerror"
    /\ level = "sub"
    /\ submodules # <<>>
    /\ emitted = <<>>

(***************************************************************************)
(* Claims about insert_api_docs                                            *)
(***************************************************************************)
HasMarker(marker, file) == \E i \in 1..Len(file) : MarkerIn(marker, file[i])

\* the line a marker resolves to: the last one containing it
MarkerLine(marker, file) ==
    CHOOSE i \in 1..Len(file) :
        /\ MarkerIn(marker, file[i])
        /\ \A k \in (i + 1)..Len(file) : ~MarkerIn(marker, file[k])

BothOnOneLine(file) ==
    \E i \in 1..Len(file) : MarkerIn("B", file[i]) /\ MarkerIn("E", file[i])

BeginAboveEnd(file) ==
    /\ HasMarker("B", file)
    /\ HasMarker("E", file)
    /\ MarkerLine("B", file) < MarkerLine("E", file)

RendersWithoutMarkers ==
    \A r \in 1..Len(modules.renders) :
        \A i \in 1..Len(modules.renders[r]) :
            /\ ~MarkerIn("B", modules.renders[r][i])
            /\ ~MarkerIn("E", modules.renders[r][i])

\* C4 as stated: whatever the modules argument, a call on a target that
\* lacks a marker, or has both markers on one line, raises ValueError and
\* leaves the file as it was.
C4_BadMarkersRaise ==
    (outcome # "none"
        /\ (~HasMarker("B", before) \/ ~HasMarker("E", before)
               \/ BothOnOneLine(before)))
    => (outcome = "ValueError" /\ target = before)

\* C4 amended: on a target that lacks a marker, or whose last begin-marker
\* line is also its last end-marker line, the file is left as it was, and
\* the call returns silently for an empty list, passes on the error of a
\* modules iterable that fails, and raises ValueError otherwise.
C4_UnresolvedMarkersNoWrite ==
    (outcome # "none"
        /\ (~HasMarker("B", before) \/ ~HasMarker("E", before)
               \/ MarkerLine("B", before) = MarkerLine("E", before)))
    => /\ target = before
       /\ outcome = IF modules.kind = "list" /\ modules.renders = <<>>
                    THEN "returned"
                    ELSE IF modules.fails THEN "render_error"
                    ELSE "ValueError"

\* C4 witness: a generator was passed, both markers occur in the file and
\* resolve to one line, and the call raised.
C4_Witness ==
    /\ outcome = "ValueError"
    /\ modules.kind = "generator"
    /\ Len(before) >= 2
    /\ HasMarker("B", before)
    /\ HasMarker("E", before)
    /\ target = before

\* C5: after a successful call the file is, line for line, the old lines
\* through the begin-marker line, the render, and the old lines from the
\* end-marker line on; the lines strictly between the marker lines are gone
\* and no other line is dropped or repeated, wherever the marker lines are.
C5_RegionReplaced ==
    outcome = "written" =>
        LET b == MarkerLine("B", before)
            e == MarkerLine("E", before)
            docs == JoinRenders(modules.renders)
            between == {i \in 1..Len(before) :
                           (b < i /\ i < e) \/ (e < i /\ i < b)}
        IN /\ target = SubSeq(before, 1, b) \o docs
                          \o SubSeq(before, e, Len(before))
           /\ Len(target) = Len(before) - Cardinality(between) + Len(docs)

\* C9: a successful call leaves every line up to the begin-marker line and
\* every line from the end-marker line on as it was, whitespace included,
\* and keeps the file's leading and trailing blank lines.
C9_OutsideRegionKept ==
    outcome = "written" =>
        LET b == MarkerLine("B", before)
            e == MarkerLine("E", before)
            shift == Len(target) - Len(before)
        IN /\ \A i \in 1..b :
                 i <= Len(target) /\ target[i] = before[i]
           /\ \A i \in e..Len(before) :
                 /\ i + shift \in 1..Len(target)
                 /\ target[i + shift] = before[i]

\* C10: with the begin marker above the end marker and a render holding
\* neither marker, a second call with the same modules finds both markers,
\* does not raise, and leaves the file exactly as the first call left it.
C10_Idempotent ==
    (calls >= 2 /\ BeginAboveEnd(original) /\ RendersWithoutMarkers
        /\ ~modules.fails)
    => /\ target = before
       /\ outcome = IF modules.kind = "list" /\ modules.renders = <<>>
                    THEN "returned" ELSE "written"

\* C10 witness: the first call replaced a non-empty region and changed the
\* file, the second call wrote again.
C10_Witness ==
    /\ calls = 2
    /\ outcome = "written"
    /\ BeginAboveEnd(original)
    /\ RendersWithoutMarkers
    /\ MarkerLine("B", original) + 1 < MarkerLine("E", original)
    /\ original # target
    /\ target = before

====
